---- MODULE Spec2Model ----
(***************************************************************************)
(* Model of thearchcobh/cruiseschedule:                                    *)
(*   generate_cobh_events.py  sheet rows + InCobh listing crawl            *)
(*                            -> cobh-events.ics                           *)
(*   generate_cobh_ics.py     Port of Cork schedule tables                 *)
(*                            -> all-ports.ics, cobh-cruise.ics            *)
(* Text is modelled as a sequence of one-character strings so that         *)
(* lower(), clean(), substring tests and the regular expressions of the    *)
(* source are computed, not assumed.  Dates are day numbers, times of day  *)
(* are minutes after midnight.                                             *)
(***************************************************************************)
EXTENDS Integers, Sequences, FiniteSets, TLC

VARIABLES
    pc,             \* position of generate_cobh_events.main
    sheet_events,   \* result of parse_sheet_events
    page,           \* listing page number of the crawl loop
    h3left,         \* <h3> elements of the fetched page not yet visited
    out,            \* parse_incobh_events: records before deduplication
    incobh_events,  \* parse_incobh_events: its return value
    cal,            \* components added to cobh-events.ics
    blk,            \* the <h3> block visited by the latest loop iteration
    res,            \* what that iteration did with it
    exc,            \* the exception that ended generate_cobh_events.main, if any
    stop,           \* why the crawl loop over the listing pages ended, if it has
    nfetch,         \* listing pages requested so far
    pairs,          \* <h3> elements with a link visited on the latest fetched page
    dom,            \* the listing page whose blocks are collected
    hpos,           \* position in dom of the <h3> visited by the latest iteration
    src,            \* positions in dom of the texts collected as its lines
    spc,            \* position of generate_cobh_ics.main
    tbl,            \* index of the table being scanned
    idx,            \* the column map of the scan
    hdr,            \* the latest header row seen in the table being scanned
    row,            \* the row handled by the latest scan step of that table
    rowres,         \* what the scan step did with it
    nlabel,         \* section-label rows scanned so far
    nheader,        \* header rows scanned so far
    ndata,          \* rows scanned so far that the latest header makes a call of
    cal_all,        \* components added to all-ports.ics
    cal_cobh,       \* components added to cobh-cruise.ics
    reads,          \* cell positions the latest scan step read
    maptbl,         \* index of the table whose header row built idx (0: idx is None)
    uid_all,        \* UID of the components of all-ports.ics, in order
    uid_cobh        \* UID of the components of cobh-cruise.ics, in order

sgVars == <<dom, hpos, src>>
evVars == <<pc, sheet_events, page, h3left, out, incobh_events, cal, blk, res, exc, stop,
            nfetch, pairs, dom, hpos, src>>
scVars == <<spc, tbl, idx, hdr, row, rowres, nlabel, nheader, ndata, cal_all, cal_cobh,
            reads, maptbl, uid_all, uid_cobh>>
vars == <<pc, sheet_events, page, h3left, out, incobh_events, cal, blk, res, exc, stop,
          nfetch, pairs, dom, hpos, src,
          spc, tbl, idx, hdr, row, rowres, nlabel, nheader, ndata,
          cal_all, cal_cobh, reads, maptbl, uid_all, uid_cobh>>

(***************************************************************************)
(* Bounds of the model.                                                    *)
(***************************************************************************)
MaxDay == 2         \* days a date line or a structured date can name
MaxLines == 3       \* lines of a listing block
MaxOut == 2         \* records the crawl collects in one run
MaxH3 == 2          \* <h3> elements of one listing page
MaxSheetRows == 1   \* rows of the sheet feed
MaxDedup == 3       \* records handed to the deduplication on its own
MaxLabels == 2      \* section-label rows scanned in one schedule run
MaxHeaders == 2     \* header rows scanned in one schedule run
MaxCalls == 3       \* calls one schedule run emits
MaxTables == 2      \* tables of the schedule page

(***************************************************************************)
(* Text.                                                                   *)
(***************************************************************************)
UpperCase == <<"A","B","C","D","E","F","G","H","I","J","K","L","M",
               "N","O","P","Q","R","S","T","U","V","W","X","Y","Z">>
LowerCase == <<"a","b","c","d","e","f","g","h","i","j","k","l","m",
               "n","o","p","q","r","s","t","u","v","w","x","y","z">>
Digits == <<"0","1","2","3","4","5","6","7","8","9">>

UpperSet == {UpperCase[i] : i \in DOMAIN UpperCase}
LowerSet == {LowerCase[i] : i \in DOMAIN LowerCase}
DigitSet == {Digits[i] : i \in DOMAIN Digits}

\* the lower-case letter of each upper-case letter
LowerOf == [c \in UpperSet |-> LowerCase[CHOOSE i \in DOMAIN UpperCase : UpperCase[i] = c]]
\* the value of each digit
DigitValue == [c \in DigitSet |-> (CHOOSE i \in DOMAIN Digits : Digits[i] = c) - 1]

LowerChar(c) == IF c \in UpperSet THEN LowerOf[c] ELSE c

\* str.lower()
Lower(s) == [i \in DOMAIN s |-> LowerChar(s[i])]

IsDigit(c) == c \in DigitSet
DigitVal(c) == DigitValue[c]
IsSpace(c) == c = " "
\* \w of the regular expressions, for the \b boundaries
IsWordChar(c) == c \in DigitSet \/ c \in UpperSet \/ c \in LowerSet \/ c = "_"

RECURSIVE LStrip(_)
LStrip(s) == IF s # <<>> /\ IsSpace(Head(s)) THEN LStrip(Tail(s)) ELSE s

RECURSIVE RStrip(_)
RStrip(s) ==
    IF s # <<>> /\ IsSpace(s[Len(s)]) THEN RStrip(SubSeq(s, 1, Len(s) - 1)) ELSE s

\* str.strip()
Strip(s) == RStrip(LStrip(s))

RECURSIVE Collapse(_)
\* every run of white space becomes one space
Collapse(s) ==
    IF ~\E i \in 1..(Len(s) - 1) : IsSpace(s[i]) /\ IsSpace(s[i + 1]) THEN s
    ELSE IF IsSpace(s[1]) /\ IsSpace(s[2]) THEN Collapse(Tail(s))
    ELSE <<s[1]>> \o Collapse(Tail(s))

\* clean(): re.sub(r"\s+", " ", (s or "").strip())
clean(s) == Collapse(Strip(s))

\* needle in s
Contains(s, needle) ==
    \E i \in 1..(Len(s) - Len(needle) + 1) :
        \A k \in 1..Len(needle) : s[i + k - 1] = needle[k]

\* re.search(r"\b20\d{2}\b", s)
HasYear(s) ==
    \E i \in 1..(Len(s) - 3) :
        /\ s[i] = "2" /\ s[i + 1] = "0" /\ IsDigit(s[i + 2]) /\ IsDigit(s[i + 3])
        /\ (i = 1 \/ ~IsWordChar(s[i - 1]))
        /\ (i + 3 = Len(s) \/ ~IsWordChar(s[i + 4]))

\* re.fullmatch(r"\d{1,2}:\d{2}", s)
IsHHMM(s) ==
    \/ Len(s) = 4 /\ IsDigit(s[1]) /\ s[2] = ":" /\ IsDigit(s[3]) /\ IsDigit(s[4])
    \/ Len(s) = 5 /\ IsDigit(s[1]) /\ IsDigit(s[2]) /\ s[3] = ":"
                  /\ IsDigit(s[4]) /\ IsDigit(s[5])

Cobh == <<"C","o","b","h">>
Cork == <<"C","o","r","k">>
cobhLower == <<"c","o","b","h">>

(***************************************************************************)
(* Temporal values: None, a date, or a datetime in Europe/Dublin.          *)
(***************************************************************************)
MinutesPerDay == 24 * 60
DefaultDuration == 120

None == [k |-> "none", day |-> 0, min |-> 0]
Date(d) == [k |-> "date", day |-> d, min |-> 0]
DateTime(d, m) == [k |-> "dt", day |-> d + (m \div MinutesPerDay), min |-> m % MinutesPerDay]

IsDateOnly(v) == v.k = "date"      \* isinstance(v, date) and not isinstance(v, datetime)
IsDateTime(v) == v.k = "dt"        \* isinstance(v, datetime)
IsDate(v) == v.k \in {"date", "dt"} \* isinstance(v, date): datetime is a subclass

Instant(v) == v.day * MinutesPerDay + v.min
AddDays(v, n) == [v EXCEPT !.day = v.day + n]
AddMinutes(v, n) == DateTime(v.day, v.min + n)
DateOf(v) == Date(v.day)           \* datetime.date()

(***************************************************************************)
(* Event records.                                                          *)
(***************************************************************************)
NoRec == [title |-> <<>>, start |-> None, end |-> None, location |-> <<>>,
          url |-> FALSE, source |-> "none", tags |-> {}]

Record(title, start, end, location, url, source, tags) ==
    [title |-> title, start |-> start, end |-> end, location |-> location,
     url |-> url, source |-> source, tags |-> tags]

(***************************************************************************)
(* The detail page of an event.  A structured date carries what            *)
(* dateutil.parse makes of it: whether it parses, and the day and minute.  *)
(***************************************************************************)
NoRaw == [given |-> FALSE, ok |-> FALSE, hasT |-> FALSE, day |-> 0, min |-> 0]
BadRaw == [given |-> TRUE, ok |-> FALSE, hasT |-> FALSE, day |-> 0, min |-> 0]
Raw(hasT, d, m) == [given |-> TRUE, ok |-> TRUE, hasT |-> hasT, day |-> d, min |-> m]

\* startDate / endDate of the JSON-LD Event to a date or a datetime
JsonldDate(raw) ==
    IF ~raw.given \/ ~raw.ok THEN None
    ELSE IF ~raw.hasT /\ raw.min = 0 THEN Date(raw.day)
    ELSE DateTime(raw.day, raw.min)

NoJsonld == [raised |-> FALSE, found |-> FALSE, start |-> None, end |-> None,
             venue |-> <<>>, locality |-> <<>>, tags |-> {}]

\* the fields of the Event object that reach clean() without a type test:
\* location.name, location.address.addressLocality, the items of a keywords list
UncheckedFields == {"name", "locality", "keyword"}

\* extract_event_jsonld: the first schema.org Event object of the page
\* (d.bad names a field that holds a JSON value other than text, a list or a number say:
\* clean() calls .strip() on it and AttributeError leaves the function)
extract_event_jsonld(d) ==
    IF ~d.event THEN NoJsonld
    ELSE IF d.bad \in UncheckedFields THEN [NoJsonld EXCEPT !.raised = TRUE]
    ELSE [raised |-> FALSE, found |-> TRUE,
          start |-> JsonldDate(d.startDate),
          end |-> JsonldDate(d.endDate),
          venue |-> clean(d.venue),
          locality |-> clean(d.locality),
          tags |-> d.tags]

Unknown == [raised |-> FALSE, venue |-> <<>>, start |-> None, end |-> None, tags |-> {},
            is_cobh |-> "None"]

\* a comparison that forgets lower()
IsCobhLocality_CaseSensitive(locality) == locality = Cobh

\* locality.lower() == "cobh"
IsCobhLocality(locality) == Lower(locality) = cobhLower

\* enrich_from_event_page: only the fetch is inside a try
enrich_from_event_page(d) ==
    IF d.fetch # "ok" THEN Unknown
    ELSE LET js == extract_event_jsonld(d)
             locality == Strip(js.locality)
         IN  IF js.raised THEN [Unknown EXCEPT !.raised = TRUE]
             ELSE IF ~js.found THEN Unknown
             ELSE [raised |-> FALSE, venue |-> js.venue, start |-> js.start, end |-> js.end,
                   tags |-> js.tags,
                   is_cobh |-> IF locality # <<>>
                               THEN (IF IsCobhLocality(locality) THEN "True" ELSE "False")
                               ELSE "None"]

(***************************************************************************)
(* Listing blocks.  A line carries its text and the day dateutil reads     *)
(* from it (0: dateutil raises on it); every day of the model is in a year *)
(* from 2020 on.                                                           *)
(***************************************************************************)
Line(s, d) == [s |-> s, day |-> d]
NoLine == Line(<<>>, 0)

MidnightSpellings ==
    { <<"0","0",":","0","0">>,
      <<"0","0",":","0","0",":","0","0">>,
      <<"1","2",":","0","0"," ","A","M">>,
      <<"1","2",":","0","0",":","0","0"," ","A","M">> }

is_midnight_like_time_str(t) == Strip(t) \in MidnightSpellings

\* parse_date_only_line
parse_date_only_line(l) == IF l.day > 0 THEN Date(l.day) ELSE None

\* the position of the first TRUE of a sequence of tests (0: none), as the
\* "for t in lines: if ...: return / break" loops find it
FirstIndex(tests) ==
    IF \E i \in DOMAIN tests : tests[i]
    THEN CHOOSE i \in DOMAIN tests : tests[i] /\ \A j \in 1..(i - 1) : ~tests[j]
    ELSE 0

\* pick_first_hhmm
pick_first_hhmm(lines) ==
    LET P(l) == IsHHMM(Strip(l.s))
        i == FirstIndex([n \in DOMAIN lines |-> P(lines[n])])
    IN  IF i = 0 THEN <<>> ELSE Strip(lines[i].s)

\* pick_first_line_with_year
pick_first_line_with_year(lines) ==
    LET P(l) == HasYear(l.s)
        i == FirstIndex([n \in DOMAIN lines |-> P(lines[n])])
    IN  IF i = 0 THEN NoLine ELSE lines[i]

\* the hour and minute dateutil reads from an H:MM or HH:MM token; -1 when it raises
TimeOfDay(t) ==
    LET hh == IF Len(t) = 4 THEN DigitVal(t[1]) ELSE 10 * DigitVal(t[1]) + DigitVal(t[2])
        mm == 10 * DigitVal(t[Len(t) - 1]) + DigitVal(t[Len(t)])
    IN  IF hh > 23 \/ mm > 59 THEN -1 ELSE 60 * hh + mm

\* the lines of a block: every part cleaned, empty parts dropped
BlockLines(parts) ==
    LET cleaned == [i \in DOMAIN parts |-> Line(clean(parts[i].s), parts[i].day)]
        NonEmpty(l) == l.s # <<>>
    IN  SelectSeq(cleaned, NonEmpty)

PlaceNames == {Cobh, Cork}

\* "Cobh" as soon as any line of the block is "Cobh"
FirstLoc_AnyCobh(lines) ==
    IF \E i \in DOMAIN lines : lines[i].s = Cobh THEN Cobh
    ELSE IF \E i \in DOMAIN lines : lines[i].s = Cork THEN Cork
    ELSE <<>>

\* first location token of the listing block (<<>> when there is none)
FirstLoc(lines) ==
    LET P(l) == l.s \in PlaceNames
        i == FirstIndex([n \in DOMAIN lines |-> P(lines[n])])
    IN  IF i = 0 THEN <<>> ELSE lines[i].s

\* the location filter of the crawl loop: TRUE when the event is kept
LocalityFilter(is_cobh, first_loc) ==
    IF is_cobh = "False" THEN FALSE
    ELSE IF is_cobh = "None" /\ first_loc # Cobh THEN FALSE
    ELSE TRUE

\* the lines after the first "Cobh" line, or all lines
AfterCobh(lines) ==
    LET P(l) == l.s = Cobh
        i == FirstIndex([n \in DOMAIN lines |-> P(lines[n])])
    IN  IF i = 0 THEN lines ELSE SubSeq(lines, i + 1, Len(lines))

\* the listing fallback for start and end: [ok, start, end]
ListingDates(lines) ==
    LET after == AfterCobh(lines)
        date_line == pick_first_line_with_year(after)
        hhmm == pick_first_hhmm(after)
        time_line == IF hhmm = <<>> THEN <<"0","0",":","0","0">> ELSE hhmm
        all_day == is_midnight_like_time_str(time_line)
        d0 == parse_date_only_line(date_line)
    IN  IF date_line = NoLine THEN [ok |-> FALSE, start |-> None, end |-> None]
        ELSE IF all_day
        THEN (IF d0 = None THEN [ok |-> FALSE, start |-> None, end |-> None]
              ELSE [ok |-> TRUE, start |-> d0, end |-> AddDays(d0, 1)])
        ELSE (IF date_line.day = 0 \/ TimeOfDay(time_line) < 0
              THEN [ok |-> FALSE, start |-> None, end |-> None]
              ELSE LET s0 == DateTime(date_line.day, TimeOfDay(time_line))
                   IN  [ok |-> TRUE, start |-> s0, end |-> AddMinutes(s0, DefaultDuration)])

\* "Normalize all-day end (exclusive DTEND)"
NormalizeAllDayEnd(start_val, end_val) ==
    IF IsDateOnly(start_val)
    THEN LET e1 == IF IsDateTime(end_val) THEN DateOf(end_val) ELSE end_val
         IN  IF IsDate(e1)
             THEN (IF e1.day <= start_val.day THEN AddDays(start_val, 1) ELSE AddDays(e1, 1))
             ELSE e1
    ELSE end_val

NoResult == [stage |-> "none", is_cobh |-> "None", first_loc |-> <<>>,
             viaListing |-> FALSE, pre |-> [start |-> None, end |-> None], rec |-> NoRec]

\* one iteration of "for h3 in h3s" in parse_incobh_events
VisitH3(b) ==
    LET lines == BlockLines(b.parts)
        first_loc == FirstLoc(lines)
        enrich == IF b.url THEN enrich_from_event_page(b.detail) ELSE Unknown
        fallback == enrich.start = None \/ enrich.end = None
        listing == ListingDates(lines)
        start_val == IF fallback THEN listing.start ELSE enrich.start
        end_val == IF fallback THEN listing.end ELSE enrich.end
        seen == [NoResult EXCEPT !.is_cobh = enrich.is_cobh, !.first_loc = first_loc]
    IN  IF ~b.link THEN [NoResult EXCEPT !.stage = "nolink"]
        ELSE IF enrich.raised THEN [NoResult EXCEPT !.stage = "raised", !.first_loc = first_loc]
        ELSE IF ~LocalityFilter(enrich.is_cobh, first_loc)
        THEN [seen EXCEPT !.stage = "excluded"]
        ELSE IF fallback /\ ~listing.ok
        THEN [seen EXCEPT !.stage = "nodate"]
        ELSE [seen EXCEPT
                !.stage = "added",
                !.viaListing = fallback,
                !.pre = [start |-> start_val, end |-> end_val],
                !.rec = Record(clean(b.title), start_val,
                               NormalizeAllDayEnd(start_val, end_val),
                               IF enrich.venue # <<>> THEN enrich.venue ELSE Cobh,
                               b.url, "InCobh", enrich.tags)]

(***************************************************************************)
(* Listing pages.  A page is the sequence of its nodes in document order,  *)
(* as h3.next_elements walks them: every node carries the position of its  *)
(* last descendant (its own position when it has none), a text node its    *)
(* line.  strget tells whether the installed BeautifulSoup gives text      *)
(* nodes a get_text method (from 4.9 on) or only elements.                 *)
(***************************************************************************)
El(name, href, last) == [name |-> name, href |-> href, line |-> NoLine, last |-> last]
Txt(pos, line) == [name |-> "#text", href |-> FALSE, line |-> line, last |-> pos]
NoPage == [nodes |-> <<>>, strget |-> FALSE]

\* the first <h3> after position i in document order (Len(nodes) + 1: none)
NextH3(nodes, i) ==
    IF \E j \in (i + 1)..Len(nodes) : nodes[j].name = "h3"
    THEN CHOOSE j \in (i + 1)..Len(nodes) :
            /\ nodes[j].name = "h3"
            /\ \A k \in (i + 1)..(j - 1) : nodes[k].name # "h3"
    ELSE Len(nodes) + 1

\* h3.find("a", href=True): the first link inside the heading (0: None)
FindLink(nodes, h3) ==
    LET IsLink(k) == nodes[k].name = "a" /\ nodes[k].href
        inside == (h3 + 1)..nodes[h3].last
    IN  IF \E k \in inside : IsLink(k)
        THEN CHOOSE k \in inside : IsLink(k) /\ \A j \in (h3 + 1)..(k - 1) : ~IsLink(j)
        ELSE 0

RECURSIVE TextsIn(_, _, _)
\* the positions from a to b of the text nodes that are not blank
TextsIn(nodes, a, b) ==
    IF a > b THEN <<>>
    ELSE (IF nodes[a].name = "#text" /\ Strip(nodes[a].line.s) # <<>> THEN <<a>> ELSE <<>>)
            \o TextsIn(nodes, a + 1, b)

\* el.get_text("\n", strip=True) for the node at position j, as the positions of the
\* text nodes it joins: those of all its descendants for an element
get_text(pg, j) ==
    IF pg.nodes[j].name = "#text"
    THEN (IF pg.strget THEN TextsIn(pg.nodes, j, j) ELSE <<>>)
    ELSE TextsIn(pg.nodes, j + 1, pg.nodes[j].last)

RECURSIVE CollectFrom(_, _, _)
\* "for el in h3.next_elements" from position j, until the node at position h3next
CollectFrom(pg, j, h3next) ==
    IF j >= h3next THEN <<>>
    ELSE get_text(pg, j) \o CollectFrom(pg, j + 1, h3next)

\* the positions of the texts collected as the lines of the block of the heading at h3
BlockSources(pg, h3) == CollectFrom(pg, h3 + 1, NextH3(pg.nodes, h3))

RECURSIVE ConcatText(_, _, _)
ConcatText(nodes, a, b) ==
    IF a > b THEN <<>>
    ELSE (IF nodes[a].name = "#text" THEN nodes[a].line.s ELSE <<>>)
            \o ConcatText(nodes, a + 1, b)

\* title = clean(a.get_text())
TitleOf(nodes, a) == clean(ConcatText(nodes, a + 1, nodes[a].last))

(***************************************************************************)
(* Sheet rows.                                                             *)
(***************************************************************************)
SheetRow(name, date_raw, start_time_raw, end_time_raw) ==
    [event_name |-> name, date |-> date_raw, start_time |-> start_time_raw,
     end_time |-> end_time_raw]

\* one iteration of "for row in reader" in parse_sheet_events: the records it appends
SheetRowEvents(r) ==
    LET event_name == Strip(r.event_name)
        start_time_raw == Strip(r.start_time)
        end_time_raw == Strip(r.end_time)
        all_day == start_time_raw = <<>> \/ is_midnight_like_time_str(start_time_raw)
        d0 == parse_date_only_line(r.date)
        timed_ok == r.date.day > 0 /\ IsHHMM(start_time_raw) /\ TimeOfDay(start_time_raw) >= 0
        start_dt == DateTime(r.date.day, TimeOfDay(start_time_raw))
        end_ok == end_time_raw # <<>> /\ IsHHMM(end_time_raw) /\ TimeOfDay(end_time_raw) >= 0
        end_dt == IF end_ok THEN DateTime(r.date.day, TimeOfDay(end_time_raw))
                  ELSE AddMinutes(start_dt, DefaultDuration)
    IN  IF event_name = <<>> \/ r.date.s = <<>> THEN <<>>
        ELSE IF all_day
        THEN (IF d0 = None THEN <<>>
              ELSE <<Record(event_name, d0, AddDays(d0, 1), Cobh, FALSE, "The Arch", {})>>)
        ELSE (IF ~timed_ok THEN <<>>
              ELSE <<Record(event_name, start_dt, end_dt, Cobh, FALSE, "The Arch", {})>>)

RECURSIVE SheetEvents(_)
\* the body of parse_sheet_events over the rows of the CSV
SheetEvents(rows) ==
    IF rows = <<>> THEN <<>>
    ELSE SheetRowEvents(Head(rows)) \o SheetEvents(Tail(rows))

(***************************************************************************)
(* Deduplication and identifiers.                                          *)
(***************************************************************************)
\* str(start): a date prints without a time, a datetime with one
StartStr(v) == IF IsDateOnly(v) THEN <<v.day>> ELSE <<v.day, v.min>>

\* key = (e["title"].lower(), str(e["start"]))
DedupKey(e) == <<Lower(e.title), StartStr(e.start)>>

RECURSIVE DedupFrom(_, _)
DedupFrom(events, seen) ==
    IF events = <<>> THEN <<>>
    ELSE IF DedupKey(Head(events)) \in seen THEN DedupFrom(Tail(events), seen)
    ELSE <<Head(events)>> \o DedupFrom(Tail(events), seen \cup {DedupKey(Head(events))})

\* "Deduplicate by (title, start)"
Dedup(events) == DedupFrom(events, {})

IsSlugChar(c) == c \in DigitSet \/ c \in LowerSet

RECURSIVE Dashed(_)
\* re.sub(r"[^a-z0-9]+", "-", s)
Dashed(s) ==
    IF s = <<>> THEN <<>>
    ELSE IF IsSlugChar(Head(s)) THEN <<Head(s)>> \o Dashed(Tail(s))
    ELSE IF Len(s) > 1 /\ ~IsSlugChar(s[2]) THEN Dashed(Tail(s))
    ELSE <<"-">> \o Dashed(Tail(s))

RECURSIVE StripDash(_)
\* str.strip("-")
StripDash(s) ==
    IF s # <<>> /\ Head(s) = "-" THEN StripDash(Tail(s))
    ELSE IF s # <<>> /\ s[Len(s)] = "-" THEN StripDash(SubSeq(s, 1, Len(s) - 1))
    ELSE s

UidBaseLen == 60

\* uid(): the title part and the time stamp of the identifier
uid(title, start_val) ==
    LET slugged == StripDash(Dashed(Lower(title)))
        cut == SubSeq(slugged, 1, IF Len(slugged) < UidBaseLen THEN Len(slugged) ELSE UidBaseLen)
        base == IF cut = <<>> THEN <<"e","v","e","n","t">> ELSE cut
    IN  <<base, start_val.day, IF IsDateTime(start_val) THEN start_val.min ELSE 0>>

\* the component main adds to the calendar for one record
Component(e) ==
    [uid |-> uid(e.title, e.start),
     dtstart |-> e.start,
     dtend |-> IF IsDateOnly(e.start)
               THEN (IF IsDate(e.end) THEN e.end ELSE AddDays(e.start, 1))
               ELSE e.end,
     source |-> e.source]

(***************************************************************************)
(* Schedule tables.  A cell carries its text and what dateutil.parse makes *)
(* of it (None: it raises).  Column positions count from 1; 0 is Python's  *)
(* None.                                                                   *)
(***************************************************************************)
Cell(s, dt) == [s |-> s, dt |-> dt, href |-> <<>>]
\* a cell that holds <a href="...">
LinkCell(s, href) == [s |-> s, dt |-> None, href |-> href]

COBH_BERTH == <<"C","o","b","h"," ","C","r","u","i","s","e"," ","T","e","r","m","i","n","a","l">>
RINGASKIDDY == <<"R","i","n","g","a","s","k","i","d","d","y"," ","D","W","B">>

KwVessel == <<"v","e","s","s","e","l">>
KwBerth == <<"b","e","r","t","h">>
KwArrival == <<"a","r","r","i","v","a","l">>
KwDeparture == <<"d","e","p","a","r","t","u","r","e">>
KwPax == <<"p","a","x">>
KwLine == <<"l","i","n","e">>
KwImo == <<"i","m","o">>

\* text = [clean(c.get_text()) for c in cells]
RowText(cells) == [i \in DOMAIN cells |-> clean(cells[i].s)]

\* is_month_row
is_month_row(text) == Len(text) = 1 /\ HasYear(text[1])

RECURSIVE JoinLower(_)
\* " ".join(c.lower() for c in cells)
JoinLower(text) ==
    IF text = <<>> THEN <<>>
    ELSE IF Len(text) = 1 THEN Lower(text[1])
    ELSE Lower(text[1]) \o <<" ">> \o JoinLower(Tail(text))

\* is_header_row
is_header_row(text) ==
    LET joined == JoinLower(text)
    IN  /\ Contains(joined, KwVessel) /\ Contains(joined, KwBerth)
        /\ Contains(joined, KwArrival) /\ Contains(joined, KwDeparture)

\* find_col
find_col(headers, needle) ==
    IF \E i \in DOMAIN headers : Contains(Lower(headers[i]), Lower(needle))
    THEN CHOOSE i \in DOMAIN headers :
            /\ Contains(Lower(headers[i]), Lower(needle))
            /\ \A j \in 1..(i - 1) : ~Contains(Lower(headers[j]), Lower(needle))
    ELSE 0

NoIdx == [set |-> FALSE, vessel |-> 0, berth |-> 0, arrival |-> 0, departure |-> 0,
          pax |-> 0, line |-> 0, imo |-> 0]

\* the idx dictionary main builds from a header row
ColumnMap(text) ==
    [set |-> TRUE,
     vessel |-> find_col(text, KwVessel),
     berth |-> find_col(text, KwBerth),
     arrival |-> find_col(text, KwArrival),
     departure |-> find_col(text, KwDeparture),
     pax |-> find_col(text, KwPax),
     line |-> find_col(text, KwLine),
     imo |-> find_col(text, KwImo)]

Max2(a, b) == IF a > b THEN a ELSE b
MaxRequired(m) == Max2(Max2(m.vessel, m.berth), Max2(m.arrival, m.departure))

\* normalize_berth_title
normalize_berth_title(berth) ==
    IF berth = COBH_BERTH THEN Cobh
    ELSE IF berth = RINGASKIDDY THEN <<"R","i","n","g","a","s","k","i","d","d","y">>
    ELSE berth

\* an optional column: read only when the map has it and the row reaches it
OptionalText(m_col, cells) ==
    IF m_col # 0 /\ m_col <= Len(cells) THEN clean(cells[m_col].s) ELSE <<>>

Call(vessel, berth, start, end, pax, line) ==
    [vessel |-> vessel, berth |-> berth, start |-> start, end |-> end,
     location |-> normalize_berth_title(berth), pax |-> pax, line |-> line]
NoCall == [vessel |-> <<>>, berth |-> <<>>, start |-> None, end |-> None,
           location |-> <<>>, pax |-> <<>>, line |-> <<>>]

\* a retention test that lets every berth through
IsCobhBerth_AnyBerth(berth_raw) == berth_raw = berth_raw

\* berth_raw == COBH_BERTH
IsCobhBerth(berth_raw) == berth_raw = COBH_BERTH

StartsWith(s, prefix) == Len(s) >= Len(prefix) /\ SubSeq(s, 1, Len(prefix)) = prefix

\* normalize_mt
normalize_mt(url) ==
    IF url = <<>> THEN <<>>
    ELSE LET u == Strip(url)
             scheme == <<"h","t","t","p","s",":">>
             host == <<"w","w","w",".","m","a","r","i","n","e","t","r","a","f","f","i","c",".","c","o","m">>
             http == <<"h","t","t","p">>
             https == <<"h","t","t","p","s",":","/","/">>
         IN  IF StartsWith(u, <<"/","/">>) THEN scheme \o u
             ELSE IF StartsWith(u, <<"/">>) THEN scheme \o <<"/","/">> \o host \o u
             ELSE IF StartsWith(u, http) THEN u
             ELSE https \o u

\* extract_digits
extract_digits(s) == SelectSeq(s, IsDigit)

SlugLen == 40

\* slug
slug(s) ==
    LET slugged == StripDash(Dashed(Lower(s)))
        cut == SubSeq(slugged, 1, IF Len(slugged) < SlugLen THEN Len(slugged) ELSE SlugLen)
    IN  IF cut = <<>> THEN <<"x">> ELSE cut

\* stable_uid: the parts the identifier joins with "-"
stable_uid(vessel, line, mt_url, start, berth) ==
    LET imo == extract_digits(mt_url)
        base == IF imo # <<>> THEN imo ELSE slug(vessel)
        extra == IF line # <<>> THEN slug(line) ELSE <<"x">>
    IN  <<base, start.day, slug(berth), extra>>


NoRead == [kind |-> "none", call |-> NoCall, reads |-> {}, mt |-> <<>>]

\* a length test that looks at the vessel column only
ReadRow_VesselOnly(m, cells) ==
    IF ~m.set THEN [NoRead EXCEPT !.kind = "nomap"]
    ELSE IF m.vessel = 0 \/ m.berth = 0 \/ m.arrival = 0 \/ m.departure = 0
    THEN [NoRead EXCEPT !.kind = "norequired"]
    ELSE IF Len(cells) < m.vessel THEN [NoRead EXCEPT !.kind = "short"]
    ELSE LET required == {m.berth, m.vessel, m.arrival, m.departure}
             optional == {c \in {m.pax, m.line, m.imo} : c # 0 /\ c <= Len(cells)}
             read == [NoRead EXCEPT !.reads = required \cup optional]
         IN  IF ~(required \subseteq DOMAIN cells)
             THEN [NoRead EXCEPT !.kind = "IndexError", !.reads = required]
             ELSE LET berth_raw == clean(cells[m.berth].s)
                      vessel == clean(cells[m.vessel].s)
                      arrival == clean(cells[m.arrival].s)
                      departure == clean(cells[m.departure].s)
                      pax == OptionalText(m.pax, cells)
                      line == OptionalText(m.line, cells)
                      mt == IF m.imo # 0 /\ m.imo <= Len(cells)
                            THEN normalize_mt(cells[m.imo].href) ELSE <<>>
                  IN  IF vessel = <<>> \/ arrival = <<>> \/ departure = <<>>
                      THEN [read EXCEPT !.kind = "empty"]
                      ELSE IF cells[m.arrival].dt = None \/ cells[m.departure].dt = None
                      THEN [read EXCEPT !.kind = "unparsed"]
                      ELSE [read EXCEPT
                              !.kind = "emitted",
                              !.call = Call(vessel, berth_raw, cells[m.arrival].dt,
                                            cells[m.departure].dt, pax, line),
                              !.mt = mt]

\* the body of "for row in rows" for a row that is neither a section label nor a header:
\* [kind, call, reads, mt]; reading a cell past the end of the row is Python's IndexError
ReadRow(m, cells) ==
    IF ~m.set THEN [NoRead EXCEPT !.kind = "nomap"]
    ELSE IF m.vessel = 0 \/ m.berth = 0 \/ m.arrival = 0 \/ m.departure = 0
    THEN [NoRead EXCEPT !.kind = "norequired"]
    ELSE IF Len(cells) < MaxRequired(m) THEN [NoRead EXCEPT !.kind = "short"]
    ELSE LET required == {m.berth, m.vessel, m.arrival, m.departure}
             optional == {c \in {m.pax, m.line, m.imo} : c # 0 /\ c <= Len(cells)}
             read == [NoRead EXCEPT !.reads = required \cup optional]
         IN  IF ~(required \subseteq DOMAIN cells)
             THEN [NoRead EXCEPT !.kind = "IndexError", !.reads = required]
             ELSE LET berth_raw == clean(cells[m.berth].s)
                      vessel == clean(cells[m.vessel].s)
                      arrival == clean(cells[m.arrival].s)
                      departure == clean(cells[m.departure].s)
                      pax == OptionalText(m.pax, cells)
                      line == OptionalText(m.line, cells)
                      mt == IF m.imo # 0 /\ m.imo <= Len(cells)
                            THEN normalize_mt(cells[m.imo].href) ELSE <<>>
                  IN  IF vessel = <<>> \/ arrival = <<>> \/ departure = <<>>
                      THEN [read EXCEPT !.kind = "empty"]
                      ELSE IF cells[m.arrival].dt = None \/ cells[m.departure].dt = None
                      THEN [read EXCEPT !.kind = "unparsed"]
                      ELSE [read EXCEPT
                              !.kind = "emitted",
                              !.call = Call(vessel, berth_raw, cells[m.arrival].dt,
                                            cells[m.departure].dt, pax, line),
                              !.mt = mt]

\* a scan that keeps the first column map of a table when a later header row comes
ScanRow_KeepMap(m, cells) ==
    LET text == RowText(cells)
    IN  IF cells = <<>> THEN [kind |-> "nocells", idx |-> m, read |-> NoRead]
        ELSE IF is_month_row(text) THEN [kind |-> "label", idx |-> m, read |-> NoRead]
        ELSE IF is_header_row(text)
        THEN [kind |-> "header", idx |-> IF m.set THEN m ELSE ColumnMap(text),
              read |-> NoRead]
        ELSE LET read == ReadRow(m, cells)
             IN  [kind |-> read.kind, idx |-> m, read |-> read]

\* one iteration of "for row in rows": [kind, idx, read]
ScanRow(m, cells) ==
    LET text == RowText(cells)
    IN  IF cells = <<>> THEN [kind |-> "nocells", idx |-> m, read |-> NoRead]
        ELSE IF is_month_row(text) THEN [kind |-> "label", idx |-> m, read |-> NoRead]
        ELSE IF is_header_row(text)
        THEN [kind |-> "header", idx |-> ColumnMap(text), read |-> NoRead]
        ELSE LET read == ReadRow(m, cells)
             IN  [kind |-> read.kind, idx |-> m, read |-> read]

(***************************************************************************)
(* Inputs.                                                                 *)
(***************************************************************************)
Days == 1..MaxDay

BoundedSeq(S, n) == UNION {[1..m -> S] : m \in 0..n}

TGig == <<"G","i","g">>
TGigLower == <<"g","i","g">>
TGigBang == <<"G","i","g","!">>
TMarket == <<"M","a","r","k","e","t">>
TCraft == <<"C","r","a","f","t","s">>
VenueHall == <<"H","a","l","l">>

LCobh == Line(Cobh, 0)
LCork == Line(Cork, 0)
LDate(d) == Line(<<Digits[d + 1], " ", "M", "a", "r", " ", "2", "0", "2", "6">>, d)
LTime == Line(<<"1","9",":","3","0">>, 0)
LMidnight == Line(<<"0","0",":","0","0">>, 0)

ListingLines == {LCobh, LCork, LTime, LMidnight} \cup {LDate(d) : d \in Days}

Localities == { <<>>, <<" ">>, Cobh, <<"C","O","B","H"," ">>, Cork }

RawDates == {NoRaw, BadRaw, Raw(TRUE, 1, 0)}
                \cup {Raw(FALSE, d, 0) : d \in Days}
                \cup {Raw(TRUE, d, 600) : d \in Days}

FetchError == [fetch |-> "error", event |-> FALSE, startDate |-> NoRaw, endDate |-> NoRaw,
               locality |-> <<>>, venue |-> <<>>, tags |-> {}, bad |-> "none"]
NoEvent == [FetchError EXCEPT !.fetch = "ok"]
EventPage(s, e, loc) ==
    [fetch |-> "ok", event |-> TRUE, startDate |-> s, endDate |-> e,
     locality |-> loc, venue |-> VenueHall, tags |-> {"music"}, bad |-> "none"]
\* an Event object one of whose unchecked fields is not text
Malformed(loc, field) == [EventPage(NoRaw, NoRaw, loc) EXCEPT !.bad = field]

Block(link, title, url, parts, detail) ==
    [link |-> link, title |-> title, url |-> url, parts |-> parts, detail |-> detail]
NoBlock == Block(FALSE, <<>>, FALSE, <<>>, FetchError)

\* blocks that vary the listing lines and the locality of the detail page
LocalityBlocks ==
    { Block(TRUE, TGig, u, p, d) :
        u \in {TRUE}, p \in BoundedSeq(ListingLines, MaxLines),
        d \in {FetchError, NoEvent}
              \cup {EventPage(NoRaw, NoRaw, loc) : loc \in Localities}
              \cup {EventPage(Raw(FALSE, 1, 0), Raw(FALSE, 1, 0), loc) : loc \in Localities} }
    \cup { Block(TRUE, TGig, FALSE, p, FetchError) : p \in BoundedSeq(ListingLines, MaxLines) }

\* blocks that vary the dates of the listing lines and of the detail page
TemporalBlocks ==
    { Block(TRUE, TGig, TRUE, <<LCobh>> \o p, EventPage(s, e, <<>>)) :
        p \in BoundedSeq(ListingLines, MaxLines - 1), s \in RawDates, e \in RawDates }


\* End-to-end scenario A of the specification
ScenarioA ==
    Block(TRUE, TMarket, FALSE, <<Line(TMarket, 0), LCobh, LDate(1), Line(TCraft, 0)>>,
          FetchError)
\* End-to-end scenario C of the specification
ScenarioC ==
    Block(TRUE, TGig, TRUE, <<LCobh, LDate(1)>>, EventPage(NoRaw, NoRaw, Cork))

\* blocks whose detail page has an Event object with a field that is not text
MalformedBlocks ==
    { Block(TRUE, TGig, TRUE, p, Malformed(loc, f)) :
        p \in {<<LCobh, LDate(1)>>, <<LCork, LDate(1)>>},
        loc \in {<<>>, Cobh, Cork}, f \in UncheckedFields }

HarnessBlocks ==
    LocalityBlocks \cup TemporalBlocks \cup MalformedBlocks \cup {ScenarioA, ScenarioC}

CrawlBlocks ==
    { ScenarioA, ScenarioC,
      Block(FALSE, TGig, FALSE, <<LCobh, LDate(1)>>, FetchError),
      Block(TRUE, TGig, TRUE, <<LCobh, LDate(1), LTime>>, FetchError),
      Block(TRUE, TGigBang, TRUE, <<LCobh, LDate(1), LTime>>, NoEvent),
      Block(TRUE, TGigLower, TRUE, <<LCork>>,
            EventPage(Raw(TRUE, 1, 600), Raw(FALSE, 2, 0), Cobh)),
      Block(TRUE, TGig, TRUE, <<LCobh, LDate(1)>>, Malformed(Cobh, "name")),
      Block(TRUE, TGig, FALSE, <<LCobh, LDate(1)>>, FetchError) }

\* lines of the listing pages
PageLines == {LCobh, LCork} \cup {LDate(d) : d \in Days}

\* <h3><a>Gig</a></h3><p>x</p><p>y</p><h3><a>Market</a></h3><p>z</p>
PageFlat(x, y, z) ==
    << El("h3", FALSE, 3), El("a", TRUE, 3), Txt(3, Line(TGig, 0)),
       El("p", FALSE, 5), Txt(5, x), El("p", FALSE, 7), Txt(7, y),
       El("h3", FALSE, 10), El("a", TRUE, 10), Txt(10, Line(TMarket, 0)),
       El("p", FALSE, 12), Txt(12, z) >>

\* <div><h3><a>Gig</a></h3><p>x</p><p>y</p></div><div><h3><a>Market</a></h3><p>z</p></div>
PageNested(x, y, z) ==
    << El("div", FALSE, 8),
       El("h3", FALSE, 4), El("a", TRUE, 4), Txt(4, Line(TGig, 0)),
       El("p", FALSE, 6), Txt(6, x), El("p", FALSE, 8), Txt(8, y),
       El("div", FALSE, 14),
       El("h3", FALSE, 12), El("a", TRUE, 12), Txt(12, Line(TMarket, 0)),
       El("p", FALSE, 14), Txt(14, z) >>

\* <h3>Crafts</h3><h3><a>Gig</a></h3>x<br>z
PageBare(x, z) ==
    << El("h3", FALSE, 2), Txt(2, Line(TCraft, 0)),
       El("h3", FALSE, 5), El("a", TRUE, 5), Txt(5, Line(TGig, 0)),
       Txt(6, x), El("br", FALSE, 7), Txt(8, z) >>

Pages ==
    { [nodes |-> n, strget |-> g] :
        n \in {PageFlat(x, y, z) : x \in PageLines, y \in PageLines, z \in PageLines}
              \cup {PageNested(x, y, z) : x \in PageLines, y \in PageLines, z \in PageLines}
              \cup {PageBare(x, z) : x \in PageLines, z \in PageLines},
        g \in BOOLEAN }

SheetRowSet ==
    { SheetRow(n, d, st, et) :
        n \in {TGig, <<>>}, d \in {LDate(1), NoLine},
        st \in {<<>>, LMidnight.s, <<"1","8",":","0","0">>},
        et \in {<<>>, <<"0","9",":","0","0">>} }

(***************************************************************************)
(* generate_cobh_events.main                                               *)
(***************************************************************************)
MaxPages == 20

ScheduleIdle ==
    /\ tbl = 0 /\ idx = NoIdx /\ hdr = <<>> /\ row = <<>>
    /\ rowres = "none" /\ nlabel = 0 /\ nheader = 0 /\ ndata = 0
    /\ cal_all = <<>> /\ cal_cobh = <<>>
    /\ reads = {} /\ maptbl = 0 /\ uid_all = <<>> /\ uid_cobh = <<>>

SegmentIdle == dom = NoPage /\ hpos = 0 /\ src = <<>>

EventsStart ==
    /\ sheet_events = <<>> /\ page = 1 /\ h3left = 0 /\ out = <<>>
    /\ incobh_events = <<>> /\ cal = <<>> /\ blk = NoBlock /\ res = NoResult
    /\ exc = "none" /\ stop = "none" /\ nfetch = 0 /\ pairs = 0

Init == pc = "sheet" /\ EventsStart /\ SegmentIdle /\ spc = "idle" /\ ScheduleIdle

\* parse_sheet_events: safe_get raises, and main does not catch it
SheetFetchError ==
    /\ pc = "sheet"
    /\ pc' = "failed" /\ exc' = "HTTPError"
    /\ UNCHANGED <<sheet_events, page, h3left, out, incobh_events, cal, blk, res, stop,
                   nfetch, pairs>>
    /\ UNCHANGED sgVars /\ UNCHANGED scVars

\* parse_sheet_events: the body looks like HTML
SheetNotCsv ==
    /\ pc = "sheet"
    /\ sheet_events' = <<>>
    /\ pc' = "fetch"
    /\ UNCHANGED <<page, h3left, out, incobh_events, cal, blk, res, exc, stop, nfetch, pairs>>
    /\ UNCHANGED sgVars /\ UNCHANGED scVars

\* parse_sheet_events: the body is CSV
SheetCsv ==
    /\ pc = "sheet"
    /\ \E rows \in BoundedSeq(SheetRowSet, MaxSheetRows) : sheet_events' = SheetEvents(rows)
    /\ pc' = "fetch"
    /\ UNCHANGED <<page, h3left, out, incobh_events, cal, blk, res, exc, stop, nfetch, pairs>>
    /\ UNCHANGED sgVars /\ UNCHANGED scVars

\* parse_incobh_events: the fetch of a listing page fails
PageFetchError ==
    /\ pc = "fetch"
    /\ nfetch' = nfetch + 1
    /\ pc' = "dedup" /\ stop' = "fetch_error"
    /\ UNCHANGED <<sheet_events, page, h3left, out, incobh_events, cal, blk, res, exc, pairs>>
    /\ UNCHANGED sgVars /\ UNCHANGED scVars

\* parse_incobh_events: the page has no <h3>
PageNoH3 ==
    /\ pc = "fetch"
    /\ nfetch' = nfetch + 1 /\ pairs' = 0
    /\ pc' = "dedup" /\ stop' = "no_h3"
    /\ UNCHANGED <<sheet_events, page, h3left, out, incobh_events, cal, blk, res, exc>>
    /\ UNCHANGED sgVars /\ UNCHANGED scVars

\* parse_incobh_events: the page has n <h3> elements
PageH3s ==
    /\ pc = "fetch"
    /\ nfetch' = nfetch + 1 /\ pairs' = 0
    /\ \E n \in 1..MaxH3 : h3left' = n
    /\ pc' = "h3"
    /\ UNCHANGED <<sheet_events, page, out, incobh_events, cal, blk, res, exc, stop>>
    /\ UNCHANGED sgVars /\ UNCHANGED scVars

\* a page loop that runs one page past the maximum
AfterH3_OneMorePage ==
    IF h3left > 1
    THEN /\ h3left' = h3left - 1 /\ page' = page /\ pc' = "h3" /\ stop' = stop
    ELSE /\ h3left' = 0
         /\ page' = page + 1
         /\ pc' = IF page + 1 > MaxPages + 1 THEN "dedup" ELSE "fetch"
         /\ stop' = IF page + 1 > MaxPages + 1 THEN "last_page" ELSE stop

\* where the loops of parse_incobh_events go after an <h3>: the next <h3> of the page,
\* or the next page of range(1, 21) whatever the page held, or the end of the loop
AfterH3 ==
    IF h3left > 1
    THEN /\ h3left' = h3left - 1 /\ page' = page /\ pc' = "h3" /\ stop' = stop
    ELSE /\ h3left' = 0
         /\ page' = page + 1
         /\ pc' = IF page + 1 > MaxPages THEN "dedup" ELSE "fetch"
         /\ stop' = IF page + 1 > MaxPages THEN "last_page" ELSE stop

\* parse_incobh_events: one iteration of "for h3 in h3s" on block b; an exception of
\* the iteration leaves parse_incobh_events and main carries on with no listing record
ProcessH3(b) ==
    /\ pc = "h3"
    /\ blk' = b
    /\ res' = VisitH3(b)
    /\ pairs' = IF b.link THEN pairs + 1 ELSE pairs
    /\ IF res'.stage = "raised"
       THEN /\ incobh_events' = <<>>
            /\ pc' = "main" /\ stop' = "exception"
            /\ UNCHANGED <<page, h3left, out>>
       ELSE /\ out' = IF res'.stage = "added" THEN Append(out, res'.rec) ELSE out
            /\ Len(out') <= MaxOut
            /\ AfterH3
            /\ incobh_events' = incobh_events
    /\ UNCHANGED <<sheet_events, cal, exc, nfetch>>
    /\ UNCHANGED sgVars /\ UNCHANGED scVars

CrawlH3 == \E b \in CrawlBlocks : ProcessH3(b)

\* parse_incobh_events: the deduplication and the return
DedupStep ==
    /\ pc = "dedup"
    /\ incobh_events' = Dedup(out)
    /\ pc' = "main"
    /\ UNCHANGED <<sheet_events, page, h3left, out, cal, blk, res, exc, stop, nfetch, pairs>>
    /\ UNCHANGED sgVars /\ UNCHANGED scVars

\* main: no events from either source
NoEvents ==
    /\ pc = "main"
    /\ sheet_events \o incobh_events = <<>>
    /\ pc' = "failed" /\ exc' = "RuntimeError"
    /\ UNCHANGED <<sheet_events, page, h3left, out, incobh_events, cal, blk, res, stop,
                   nfetch, pairs>>
    /\ UNCHANGED sgVars /\ UNCHANGED scVars

\* main: every record becomes a component and the calendar is written
WriteCalendar ==
    /\ pc = "main"
    /\ sheet_events \o incobh_events # <<>>
    /\ LET all_events == sheet_events \o incobh_events
       IN  cal' = [i \in DOMAIN all_events |-> Component(all_events[i])]
    /\ pc' = "done"
    /\ UNCHANGED <<sheet_events, page, h3left, out, incobh_events, blk, res, exc, stop,
                   nfetch, pairs>>
    /\ UNCHANGED sgVars /\ UNCHANGED scVars

Next ==
    \/ SheetFetchError \/ SheetNotCsv \/ SheetCsv
    \/ PageFetchError \/ PageNoH3 \/ PageH3s \/ CrawlH3
    \/ DedupStep \/ NoEvents \/ WriteCalendar

Spec == Init /\ [][Next]_vars

(***************************************************************************)
(* parse_incobh_events on its own.  Every step of it is a blocking call    *)
(* with a timeout or a computation, so each enabled step is taken.         *)
(***************************************************************************)
InitCrawl == pc = "fetch" /\ EventsStart /\ SegmentIdle /\ spc = "idle" /\ ScheduleIdle

\* a heading without a link, two events of Cobh with a date and a time, and an event
\* whose detail page makes the enrichment raise
PaginationBlocks ==
    { Block(FALSE, TGig, FALSE, <<LCobh, LDate(1)>>, FetchError),
      Block(TRUE, TGig, TRUE, <<LCobh, LDate(1), LTime>>, FetchError),
      Block(TRUE, TCraft, TRUE, <<LCobh, LDate(1), LTime>>, FetchError),
      Block(TRUE, TGig, TRUE, <<LCobh, LDate(1)>>, Malformed(Cobh, "name")) }

PaginationH3 == \E b \in PaginationBlocks : ProcessH3(b)

NextCrawl == PageFetchError \/ PageNoH3 \/ PageH3s \/ PaginationH3 \/ DedupStep

SpecCrawl == InitCrawl /\ [][NextCrawl]_vars /\ WF_vars(NextCrawl)

(***************************************************************************)
(* One <h3> block on its own: every block of HarnessBlocks, visited once.  *)
(***************************************************************************)
InitBlock ==
    /\ pc = "h3" /\ sheet_events = <<>> /\ page = 1 /\ h3left = 1 /\ out = <<>>
    /\ incobh_events = <<>> /\ cal = <<>> /\ res = NoResult /\ exc = "none"
    /\ stop = "none" /\ nfetch = 1 /\ pairs = 0
    /\ blk \in HarnessBlocks
    /\ SegmentIdle /\ spc = "idle" /\ ScheduleIdle

VisitBlock == res = NoResult /\ ProcessH3(blk)

NextBlock == VisitBlock

SpecBlock == InitBlock /\ [][NextBlock]_vars

(***************************************************************************)
(* The deduplication on its own: every short sequence of records.          *)
(***************************************************************************)
DedupRecords ==
    { Record(t, s, AddDays(s, 1), Cobh, TRUE, "InCobh", {}) :
        t \in {TGig, TGigLower, TGigBang}, s \in {Date(1), DateTime(1, 0)} }

InitDedup ==
    /\ pc = "dedup" /\ sheet_events = <<>> /\ page = 1 /\ h3left = 0
    /\ out \in BoundedSeq(DedupRecords, MaxDedup)
    /\ incobh_events = <<>> /\ cal = <<>> /\ blk = NoBlock /\ res = NoResult
    /\ exc = "none" /\ stop = "no_h3" /\ nfetch = 1 /\ pairs = 0
    /\ SegmentIdle /\ spc = "idle" /\ ScheduleIdle

NextDedup == DedupStep

SpecDedup == InitDedup /\ [][NextDedup]_vars

(***************************************************************************)
(* The block collection of one listing page on its own: the <h3> elements  *)
(* of a page of Pages, visited in document order.                          *)
(***************************************************************************)
InitSegment ==
    /\ pc = "segment" /\ EventsStart
    /\ dom \in Pages /\ hpos = 0 /\ src = <<>>
    /\ spc = "idle" /\ ScheduleIdle

\* "for h3 in h3s" on the next <h3> of the page: the link, the title, the lines
SegmentH3 ==
    /\ pc = "segment"
    /\ NextH3(dom.nodes, hpos) <= Len(dom.nodes)
    /\ LET h3 == NextH3(dom.nodes, hpos)
           a == FindLink(dom.nodes, h3)
           srcs == IF a = 0 THEN <<>> ELSE BlockSources(dom, h3)
           b == Block(a # 0, IF a = 0 THEN <<>> ELSE TitleOf(dom.nodes, a), a # 0,
                      [k \in DOMAIN srcs |-> dom.nodes[srcs[k]].line], NoEvent)
       IN  /\ hpos' = h3
           /\ src' = srcs
           /\ blk' = b
           /\ res' = VisitH3(b)
           /\ pairs' = IF a # 0 THEN pairs + 1 ELSE pairs
           /\ out' = IF res'.stage = "added" THEN Append(out, res'.rec) ELSE out
    /\ UNCHANGED <<pc, sheet_events, page, h3left, incobh_events, cal, exc, stop, nfetch, dom>>
    /\ UNCHANGED scVars

NextSegment == SegmentH3

SpecSegment == InitSegment /\ [][NextSegment]_vars

(***************************************************************************)
(* generate_cobh_ics.main                                                  *)
(***************************************************************************)
T(x) == Cell(x, None)
CVessel == T(<<"A","i","d","a">>)
CCobh == T(COBH_BERTH)
CRinga == T(RINGASKIDDY)
CArr == Cell(<<"1","3","/","0","4"," ","0","9",":","0","0">>, DateTime(1, 540))
CDep == Cell(<<"1","3","/","0","4"," ","1","8",":","0","0">>, DateTime(1, 1080))
CTba == T(<<"T","B","A">>)
CPax == T(<<"4",",","2","0","0">>)
CImo == LinkCell(<<"9","3">>, <<"/","a","i","s","/","9","3">>)

LabelRow == <<T(<<"A","p","r","i","l"," ","2","0","2","6">>)>>
HeaderA == <<T(<<"V","e","s","s","e","l">>), T(<<"B","e","r","t","h">>), T(<<"A","r","r","i","v","a","l">>),
             T(<<"D","e","p","a","r","t","u","r","e">>), T(<<"P","a","x">>),
             T(<<"I","M","O"," ","N","o",".">>)>>
HeaderB == <<T(<<"A","r","r","i","v","a","l">>), T(<<"D","e","p","a","r","t","u","r","e">>), T(<<"P","a","x">>),
             T(<<"B","e","r","t","h">>), T(<<"V","e","s","s","e","l"," ","N","a","m","e">>),
             T(<<"I","M","O">>)>>

\* a header row with two of the required keywords in one cell
HeaderC == <<T(<<"V","e","s","s","e","l"," ","/"," ","B","e","r","t","h">>),
             T(<<"A","r","r","i","v","a","l">>), T(<<"D","e","p","a","r","t","u","r","e">>)>>

ScheduleRows ==
    { <<>>, LabelRow, HeaderA, HeaderB, HeaderC,
      <<CVessel, CCobh, CArr, CDep, CPax, CImo>>,
      <<CVessel, CRinga, CArr, CDep, CPax>>,
      <<CVessel, CCobh, CTba, CDep, CPax>>,
      <<CVessel, CCobh, CArr>>,
      <<CArr, CDep, CPax, CCobh, CVessel, CImo>>,
      <<CArr, CDep, CPax, CRinga, CVessel>> }

EventsIdle == pc = "idle" /\ EventsStart /\ SegmentIdle

InitSched == spc = "fetch" /\ ScheduleIdle /\ EventsIdle

\* main: the fetch of the schedule page fails
ScheduleFetchError ==
    /\ spc = "fetch"
    /\ spc' = "failed"
    /\ UNCHANGED <<tbl, idx, hdr, row, rowres, nlabel, nheader, ndata, cal_all, cal_cobh,
                   reads, maptbl, uid_all, uid_cobh>>
    /\ UNCHANGED evVars

\* main: the page is fetched and parsed
ScheduleFetched ==
    /\ spc = "fetch"
    /\ spc' = "tables"
    /\ UNCHANGED <<tbl, idx, hdr, row, rowres, nlabel, nheader, ndata, cal_all, cal_cobh,
                   reads, maptbl, uid_all, uid_cobh>>
    /\ UNCHANGED evVars

\* "for table in tables": the next table, with idx = None
NextTable ==
    /\ spc = "tables"
    /\ tbl < MaxTables
    /\ tbl' = tbl + 1
    /\ idx' = NoIdx
    /\ hdr' = <<>> /\ row' = <<>> /\ rowres' = "none" /\ reads' = {} /\ maptbl' = 0
    /\ UNCHANGED <<spc, nlabel, nheader, ndata, cal_all, cal_cobh, uid_all, uid_cobh>>
    /\ UNCHANGED evVars

\* the positions the header row h gives the required and optional columns
HeaderPos(h, kw) ==
    IF \E i \in DOMAIN h : Contains(Lower(clean(h[i].s)), kw)
    THEN CHOOSE i \in DOMAIN h :
            /\ Contains(Lower(clean(h[i].s)), kw)
            /\ \A j \in 1..(i - 1) : ~Contains(Lower(clean(h[j].s)), kw)
    ELSE 0

IsLabelRow(r) == Len(r) = 1 /\ HasYear(clean(r[1].s))
IsHeaderRow(r) ==
    \A kw \in {KwVessel, KwBerth, KwArrival, KwDeparture} :
        \E i \in DOMAIN r : Contains(Lower(clean(r[i].s)), kw)

\* r is a call under the header row h: a data row that reaches the required columns
\* of h, with a vessel and an arrival and a departure that parse
IsCallRow(h, r) ==
    /\ r # <<>> /\ ~IsLabelRow(r) /\ ~IsHeaderRow(r)
    /\ h # <<>>
    /\ \A kw \in {KwVessel, KwBerth, KwArrival, KwDeparture} :
          HeaderPos(h, kw) \in 1..Len(r)
    /\ clean(r[HeaderPos(h, KwVessel)].s) # <<>>
    /\ r[HeaderPos(h, KwArrival)].dt # None
    /\ r[HeaderPos(h, KwDeparture)].dt # None

LabelRows == {r \in ScheduleRows : IsLabelRow(r)}
HeaderRows == {r \in ScheduleRows : ~IsLabelRow(r) /\ IsHeaderRow(r)}
CallRows == {hr \in (HeaderRows \cup {<<>>}) \X ScheduleRows : IsCallRow(hr[1], hr[2])}

\* "for row in rows": one row of the table being scanned
ScanStep(r) ==
    /\ spc = "tables"
    /\ tbl >= 1
    /\ r \in LabelRows => nlabel < MaxLabels
    /\ r \in HeaderRows => nheader < MaxHeaders
    /\ \E step \in {ScanRow(idx, r)} :
       LET c == step.read.call
           emitted == step.kind = "emitted"
           cobh == emitted /\ IsCobhBerth(c.berth)
       IN  /\ idx' = step.idx
           /\ rowres' = step.kind
           /\ reads' = step.read.reads
           /\ maptbl' = IF step.kind = "header" THEN tbl ELSE maptbl
           /\ spc' = IF step.kind = "IndexError" THEN "failed" ELSE spc
           /\ cal_all' = IF emitted THEN Append(cal_all, c) ELSE cal_all
           /\ uid_all' = IF emitted
                         THEN Append(uid_all, stable_uid(c.vessel, c.line, step.read.mt,
                                                         c.start, c.berth \o <<"-","a","l","l">>))
                         ELSE uid_all
           /\ cal_cobh' = IF cobh THEN Append(cal_cobh, c) ELSE cal_cobh
           /\ uid_cobh' = IF cobh
                          THEN Append(uid_cobh, stable_uid(c.vessel, c.line, step.read.mt,
                                                           c.start, cobhLower))
                          ELSE uid_cobh
    /\ Len(cal_all') <= MaxCalls
    /\ row' = r
    /\ nlabel' = IF r \in LabelRows THEN nlabel + 1 ELSE nlabel
    /\ nheader' = IF r \in HeaderRows THEN nheader + 1 ELSE nheader
    /\ hdr' = IF r \in HeaderRows THEN r ELSE hdr
    /\ ndata' = IF <<hdr, r>> \in CallRows THEN ndata + 1 ELSE ndata
    /\ UNCHANGED tbl
    /\ UNCHANGED evVars

ScanAnyRow == \E r \in ScheduleRows : ScanStep(r)

\* main: both calendars are written
WriteSchedule ==
    /\ spc = "tables"
    /\ spc' = "done"
    /\ UNCHANGED <<tbl, idx, hdr, row, rowres, nlabel, nheader, ndata, cal_all, cal_cobh,
                   reads, maptbl, uid_all, uid_cobh>>
    /\ UNCHANGED evVars

NextSched ==
    \/ ScheduleFetchError \/ ScheduleFetched \/ NextTable \/ ScanAnyRow \/ WriteSchedule

SpecSched == InitSched /\ [][NextSched]_vars

(***************************************************************************)
(* Properties of the listing crawl (SpecBlock, Spec, SpecDedup).           *)
(***************************************************************************)
TargetPlaceLower == <<"c","o","b","h">>

\* the locality string the detail resource of block b yields (<<>>: none)
DetailLocality(b) ==
    IF b.url /\ b.detail.fetch = "ok" /\ b.detail.event /\ b.detail.bad = "none"
    THEN clean(b.detail.locality)
    ELSE <<>>

\* the first line of the block that is a known place name is "Cobh"
FirstPlaceIsCobh(parts) ==
    \E i \in DOMAIN parts :
        /\ clean(parts[i].s) = Cobh
        /\ \A j \in 1..(i - 1) : clean(parts[j].s) \notin {Cobh, Cork}

\* C1: when the detail resource yields a non-empty locality, the location filter
\* excludes the event exactly when that locality is not "Cobh" case-insensitively,
\* whatever the listing lines say (an event the filter keeps is emitted when it has
\* a date).
C1_LocalityOverride ==
    (res.stage # "none" /\ blk.link /\ DetailLocality(blk) # <<>>)
        => /\ (res.stage = "excluded") <=> (Lower(DetailLocality(blk)) # TargetPlaceLower)
           /\ res.stage = "added" => Lower(DetailLocality(blk)) = TargetPlaceLower

\* scenario C: the detail page says "Cork", the listing says "Cobh", the event is excluded
C1_Witness ==
    /\ blk = ScenarioC
    /\ res.stage = "excluded"
    /\ DetailLocality(blk) = Cork /\ FirstPlaceIsCobh(blk.parts)

\* C2: when the detail resource gives no locality, the location filter keeps the
\* event exactly when the first place-name line of the listing block is "Cobh"
\* (for every enrichment that returns: C11 is about the one that does not).
C2_LocalityFallback ==
    (res.stage \notin {"none", "raised"} /\ blk.link /\ DetailLocality(blk) = <<>>)
        => ((res.stage # "excluded") <=> FirstPlaceIsCobh(blk.parts))

\* a block whose first place name is "Cork" and whose second is "Cobh" is excluded
C2_Witness ==
    /\ res.stage = "excluded"
    /\ ~blk.url
    /\ blk.parts = <<LCork, LCobh, LDate(1)>>

\* C3: an all-day listing event ends the day after its start when it has no explicit
\* end date or one that is not after the start, and the day after its explicit end
\* date otherwise.
C3_AllDayEnd ==
    (res.stage = "added" /\ IsDateOnly(res.rec.start))
        => LET explicit == IF res.viaListing THEN None ELSE res.pre.end
           IN  res.rec.end = IF explicit # None /\ explicit.day > res.rec.start.day
                             THEN Date(explicit.day + 1)
                             ELSE Date(res.rec.start.day + 1)

\* C4: an all-day pair whose end is already exclusive (the listing fallback's
\* start + 1 day) keeps that end through the all-day end normalization.
C4_ExclusiveEndUnchanged ==
    (/\ res.stage = "added" /\ res.viaListing
     /\ IsDateOnly(res.pre.start) /\ res.pre.end = AddDays(res.pre.start, 1))
        => res.rec.end = res.pre.end

\* C5: every timed component of the calendar ends strictly after it starts.
C5_TimedEndAfterStart ==
    \A i \in DOMAIN cal :
        (IsDateTime(cal[i].dtstart) /\ IsDateTime(cal[i].dtend))
            => Instant(cal[i].dtend) > Instant(cal[i].dtstart)

\* C6: every component of the calendar has a start and an end of the same kind.
C6_SameVariant ==
    \A i \in DOMAIN cal : cal[i].dtstart.k = cal[i].dtend.k

\* the title lower-cased, punctuation removed
NormalizedTitle(t) ==
    LET Kept(c) == IsSlugChar(c) \/ IsSpace(c)
    IN  SelectSeq(Lower(t), Kept)

\* C9: after the deduplication no two records have the same normalized title
\* (lower-cased, punctuation-stripped) and the same start.
C9_DedupNormalizedTitle ==
    pc = "main"
        => \A i, j \in DOMAIN incobh_events :
              (i < j /\ incobh_events[i].start = incobh_events[j].start)
                  => NormalizedTitle(incobh_events[i].title)
                        # NormalizedTitle(incobh_events[j].title)

\* C10: a run fails only at the check of the combined record count, with no record
\* from any source, and a run that completes has at least one record.
C10_RunOutcome ==
    /\ pc = "failed" => (exc = "RuntimeError" /\ Len(sheet_events) + Len(incobh_events) = 0)
    /\ pc = "done" => Len(sheet_events) + Len(incobh_events) > 0

(***************************************************************************)
(* Properties of the detail enrichment, the pagination, the block          *)
(* collection, the column reads and the identifiers.                       *)
(***************************************************************************)
\* C11: the enrichment of an event with a detail URL always returns (no exception
\* leaves it, so none ends the crawl), and when the fetch fails or the page has no
\* event metadata what it returns is all-Unknown.
C11_EnrichNeverRaises ==
    /\ res.stage # "raised"
    /\ stop # "exception"
    /\ (/\ res.stage # "none" /\ blk.link /\ blk.url
        /\ (blk.detail.fetch # "ok" \/ ~blk.detail.event))
          => enrich_from_event_page(blk.detail) = Unknown

\* a collected record, or an earlier one with the same deduplication key, is returned
Returned(e) == \E j \in DOMAIN incobh_events : DedupKey(incobh_events[j]) = DedupKey(e)

\* C12: the crawl requests at most the maximum of 20 listing pages; when the fetch of
\* a listing page fails, every record collected from the earlier pages is returned
\* (up to deduplication); and the crawl always comes to its return.
C12_PaginationTerminates ==
    /\ [](nfetch <= MaxPages)
    /\ []((pc = "main" /\ stop = "fetch_error") => \A i \in DOMAIN out : Returned(out[i]))
    /\ <>(pc = "main")

\* twenty pages with headings and no stop signal: the loop ends after the twentieth
\* and returns what it collected
C12_Witness ==
    /\ pc = "main" /\ stop = "last_page"
    /\ nfetch = MaxPages /\ page = MaxPages + 1
    /\ Len(incobh_events) = MaxOut

\* C13: the crawl goes on to fetch a further listing page only when the page it has
\* just been through held at least one heading with a link.
C13_PageExhaustion ==
    (pc = "fetch" /\ nfetch > 0) => pairs > 0

\* C14: every text collected as a line of the block of a heading lies after that
\* heading and before the next heading in document order.
C14_BlockBoundary ==
    \A k \in DOMAIN src : hpos < src[k] /\ src[k] < NextH3(dom.nodes, hpos)

\* C15: no scan step reads a cell past the end of its row; a step that reads the
\* cells of a data row has a column map with the four required columns, all within
\* the row, reads exactly those and the optional columns that are defined and within
\* the row; a column map has its four required columns whenever it is set; and it is
\* set only by a header row of the table being scanned.
C15_ColumnIndexSafety ==
    LET required == {idx.vessel, idx.berth, idx.arrival, idx.departure}
        optional == {idx.pax, idx.line, idx.imo}
    IN  /\ rowres # "IndexError"
        /\ rowres \in {"empty", "unparsed", "emitted"}
              => /\ idx.set
                 /\ required \subseteq reads
                 /\ reads \subseteq DOMAIN row
                 /\ reads \subseteq required \cup (optional \ {0})
                 /\ \A c \in optional : (c # 0 /\ c <= Len(row)) => c \in reads
        /\ idx.set => (0 \notin required /\ maptbl = tbl)
        /\ rowres \notin {"empty", "unparsed", "emitted"} => reads = {}

\* in the second table, under its own header row, a row without the link cell is read:
\* the four required columns and the passenger column, not the link column, which the
\* header row defines and the row does not reach
C15_Witness ==
    /\ tbl = 2 /\ maptbl = 2 /\ nheader = 2
    /\ hdr = HeaderA /\ idx.imo = 6
    /\ row = <<CVessel, CRinga, CArr, CDep, CPax>>
    /\ rowres = "emitted" /\ reads = 1..5

NoRepeat(s) == \A i, j \in DOMAIN s : i # j => s[i] # s[j]

\* C16: no two components of one output calendar have the same identifier.
C16_UniqueIdentifiers ==
    /\ NoRepeat([i \in DOMAIN cal |-> cal[i].uid])
    /\ NoRepeat(uid_all)
    /\ NoRepeat(uid_cobh)

(***************************************************************************)
(* Properties of the schedule scan (SpecSched).                            *)
(***************************************************************************)
\* the call the header row h makes of the data row r
CallVia(h, r) ==
    LET Opt(kw) == IF HeaderPos(h, kw) \in 1..Len(r) THEN clean(r[HeaderPos(h, kw)].s)
                   ELSE <<>>
    IN  Call(clean(r[HeaderPos(h, KwVessel)].s), clean(r[HeaderPos(h, KwBerth)].s),
             r[HeaderPos(h, KwArrival)].dt, r[HeaderPos(h, KwDeparture)].dt,
             Opt(KwPax), Opt(KwLine))

\* C7: section-label rows and header rows produce no call; any other row produces a
\* call exactly when the latest header row of its table makes one of it, and that
\* call is read at the positions of that header row; so the calls are as many as
\* such rows.
C7_RowScan ==
    /\ (row # <<>> /\ (IsLabelRow(row) \/ IsHeaderRow(row))) => rowres \in {"label", "header"}
    /\ (rowres = "emitted") <=> (<<hdr, row>> \in CallRows)
    /\ rowres = "emitted" => cal_all[Len(cal_all)] = CallVia(hdr, row)
    /\ Len(cal_all) = ndata

\* [label, header, 2 data rows, label, header, 1 data row] in one table: 3 calls, the
\* third read at the positions of the second header, which differ from the first's
C7_Witness ==
    /\ tbl = 1 /\ nlabel = 2 /\ nheader = 2 /\ Len(cal_all) = 3
    /\ hdr = HeaderB /\ HeaderPos(HeaderB, KwVessel) # HeaderPos(HeaderA, KwVessel)
    /\ row = <<CArr, CDep, CPax, CCobh, CVessel, CImo>>
    /\ rowres = "emitted"
    /\ cal_all[3].vessel = CVessel.s /\ cal_all[3].berth = COBH_BERTH

\* C8 as amended: a call is in the Cobh calendar exactly when it is in the all-ports
\* calendar with the berth "Cobh Cruise Terminal"; a row whose arrival or departure
\* does not parse adds a call to neither calendar.
C8_CobhCalendarBerth ==
    LET AtCobh(c) == c.berth = COBH_BERTH
    IN  /\ \A i \in DOMAIN cal_cobh : cal_cobh[i].berth = COBH_BERTH
        /\ cal_cobh = SelectSeq(cal_all, AtCobh)
        /\ rowres = "unparsed" => Len(cal_all) = ndata

C8_Witness ==
    /\ rowres = "unparsed"
    /\ Len(cal_all) = 2 /\ Len(cal_cobh) = 1
    /\ cal_all[1].berth = RINGASKIDDY /\ cal_all[2].berth = COBH_BERTH

\* C8 as stated: no output of the schedule run holds a call at another berth.
C8_OnlyCobhBerthEmitted ==
    /\ \A i \in DOMAIN cal_all : cal_all[i].berth = COBH_BERTH
    /\ \A i \in DOMAIN cal_cobh : cal_cobh[i].berth = COBH_BERTH

====
